---- MODULE Spec2Model ----
(***************************************************************************)
(* retiarius: a UDP relay.  One client-facing ChanneledSocket, a Router     *)
(* task owning the routes table, and one backend ChanneledSocket plus one   *)
(* return task per client address (src/src/main.rs).  The DropChance filter *)
(* lives in src/src/filters/drop_chance.rs.                                 *)
(*                                                                          *)
(* Every tokio task is a process of the model; every .await is a step       *)
(* boundary.  A panicking task (an .expect on an Err, unreachable!) dies    *)
(* alone; what it owned is dropped, which closes the channels whose         *)
(* Receiver it held.                                                        *)
(***************************************************************************)
EXTENDS Integers, Sequences, FiniteSets, TLC

\* ------------------------------------------------------------- bounds
\* Datagrams the listening socket reads in one run.
MaxDatagrams == 4
\* Datagrams the backend sockets read from the server in one run, all together.
MaxReplies == 1
\* Slots of every mpsc channel.  The source says channel::<Datagram>(100)
\* (main.rs:42, 135, 196); the model scales the capacity down so that a full
\* channel is reachable.
ChannelCapacity == 2
\* I/O failures (bind, connect, send_to returning Err) the environment injects.
MaxFaults == 1
\* Probabilities and rolls are multiples of 1/Scale.
Scale == 4

\* ------------------------------------------------------------- values
Clients == {"A", "B"}
ServerAddr == "S"
None == "None"
\* Socket ids: 0 is the listening socket, 1, 2, ... the backend sockets in
\* the order the Router binds them.
ListenSock == 0
\* pub const BUFFER_SIZE
BUFFER_SIZE == 1500
\* Datagram lengths on the wire: small, exactly the buffer, one byte more.
WireLens == {1, BUFFER_SIZE, BUFFER_SIZE + 1}
NoSock == -1
NoFilter == -1

\* struct Datagram.  via is a history field, not in the struct: the socket
\* that read the datagram from the network.
Datagram(p, o, d, v) == [payload |-> p, origin |-> o, destination |-> d, via |-> v]
\* payload: Bytes.  The bytes themselves are opaque to the relay, which only
\* copies them; id names the datagram they came in (the n-th one its socket
\* read) and len is how many of its bytes the payload holds.
Payload(id, len) == [id |-> id, len |-> len]

NoMsg == Datagram(Payload(0, 0), None, None, NoSock)

\* A bug: the destination is set on a copy that is thrown away.
set_destination_lost(d, destination) == d

set_destination(d, destination) == [d EXCEPT !.destination = destination]

VARIABLES
    process,      \* "running" | "exited": main returns once the router task ends
    drop_percent, \* the configured drop probability (NoFilter: none)
    wire_len,     \* environment: the length in bytes of the datagrams sent to the relay
    applied,      \* last call of DropChance::apply: input, roll, output
    routerChan,   \* channel main.rs:196, client pump -> Router
    router,       \* Router task: pc and the message it holds
    routes,       \* routes: client address -> backend socket id
    outChan,      \* per pump: channel main.rs:42, feeding its send loop
    sendLoop,     \* per pump: "run" | "dead" (panicked) | "spin" (see SocketSendClosed)
    recvLoop,     \* per pump: pc and the datagram it holds
    proxyChan,    \* per backend pump: channel main.rs:135, pump -> return task
    recvTask,     \* per backend pump: the return task, pc, message, destination
    rx,           \* history: datagrams each socket read from the network
    tx,           \* history: datagrams each socket wrote to the network
    seen,         \* history: origins of the messages the Router took
    faults        \* history: the I/O failures so far, <<call, socket or client, kind>>

vars == <<process, drop_percent, wire_len, applied, routerChan, router, routes, outChan,
          sendLoop, recvLoop, proxyChan, recvTask, rx, tx, seen, faults>>

Socks == DOMAIN outChan
Backends == Socks \ {ListenSock}

\* ------------------------------------------------------------- helpers
Insert(m, k, v) == [x \in DOMAIN m \cup {k} |-> IF x = k THEN v ELSE m[x]]

\* A bug: the table is rebuilt with the new entry alone.
routes_insert_reset(r, origin, route) == [x \in {origin} |-> route]

\* routes.insert(message.origin, route)
routes_insert(r, origin, route) == Insert(r, origin, route)

\* A bug: the channel hands out the newest message first.
EnqueueFront(q, d) == <<d>> \o q

Enqueue(q, d) == Append(q, d)

\* A bug: the channel is unbounded.
HasRoomAlways(q) == TRUE

\* A bug: the channel has no slot at all.
HasRoomNever(q) == FALSE

HasRoom(q) == Len(q) < ChannelCapacity

\* A bug: recv() hands out the oldest message and leaves it in the channel.
DequeueKeep(q) == q

\* What receiver.recv() leaves in the channel after returning Some(message).
Dequeue(q) == Tail(q)

\* A bug: the entry is taken for vacant on every datagram.
IsVacantAlways(r, origin) == TRUE

IsVacant(r, origin) == origin \notin DOMAIN r

\* A bug: the Router forwards on whichever route it finds first.
RouteLookupAny(r, origin) ==
    IF DOMAIN r = {} THEN NoSock ELSE r[CHOOSE k \in DOMAIN r : TRUE]

\* A bug: the lookup uses a key that is never in the table.
RouteLookupMiss(r, origin) == NoSock

RouteLookup(r, origin) == IF origin \in DOMAIN r THEN r[origin] ELSE NoSock

\* A bug: the return task is given the message's destination, not its origin.
ReplyDestinationUnset(message) == message.destination

ReplyDestination(message) == message.origin

\* A bug: the roll is compared with <=.
DropChanceApplyLe(p, r, input) == IF r <= p THEN NoMsg ELSE input

\* DropChance::apply with probability p and roll r, both in units of 1/Scale.
DropChanceApply(p, r, input) == IF r < p THEN NoMsg ELSE input

\* ------------------------------------------------------------- Init
InitRelay(p, len) ==
    /\ process = "running"
    /\ drop_percent = p
    /\ wire_len = len
    /\ applied = [called |-> FALSE, input |-> NoMsg, roll |-> 0, output |-> NoMsg]
    /\ routerChan = <<>>
    /\ router = [pc |-> "recv", msg |-> NoMsg]
    /\ routes = <<>>
    /\ outChan = [s \in {ListenSock} |-> <<>>]
    /\ sendLoop = [s \in {ListenSock} |-> "run"]
    /\ recvLoop = [s \in {ListenSock} |-> [pc |-> "recv", msg |-> NoMsg]]
    /\ proxyChan = [s \in {ListenSock} |-> <<>>]
    /\ recvTask = [s \in {ListenSock} |-> [pc |-> "none", msg |-> NoMsg, destination |-> None]]
    /\ rx = [s \in {ListenSock} |-> <<>>]
    /\ tx = [s \in {ListenSock} |-> <<>>]
    /\ seen = {}
    /\ faults = {}

\* main.rs as it is: Args has no drop_percent, no filter is configured.
Init == InitRelay(NoFilter, BUFFER_SIZE)

\* ------------------------------------------------ ChanneledSocket::new
\* Who may send to socket s: the listening socket hears the clients, a backend
\* socket is connect()ed to the server and hears only the server.
Peers(s) == IF s = ListenSock THEN Clients ELSE {ServerAddr}

RECURSIVE Received(_)
Received(S) ==
    IF S = {} THEN 0
    ELSE LET s == CHOOSE x \in S : TRUE IN Len(rx[s]) + Received(S \ {s})

MayReceive(s) ==
    IF s = ListenSock THEN Len(rx[s]) < MaxDatagrams ELSE Received(Backends) < MaxReplies

\* The channel a pump's receive loop publishes to, and whether its Receiver
\* is still alive.
InboundOf(s) == IF s = ListenSock THEN routerChan ELSE proxyChan[s]

InboundOpen(s) == IF s = ListenSock THEN router.pc # "dead" ELSE recvTask[s].pc # "dead"

\* A bug: the buffer is one byte short of BUFFER_SIZE.
ReadLenShort(n) == IF n < BUFFER_SIZE - 1 THEN n ELSE BUFFER_SIZE - 1

\* recv_from into data: [0; BUFFER_SIZE] returns at most BUFFER_SIZE bytes of
\* a datagram of n bytes; the rest of a longer one is discarded by the socket.
ReadLen(n) == IF n < BUFFER_SIZE THEN n ELSE BUFFER_SIZE

\* How an I/O call can fail: an error that passes (would-block, interrupted)
\* or one that stays (socket closed, permission revoked).
ErrorKinds == {"transient", "fatal"}

\* A socket whose recv_from has failed for good returns no datagram again.
Broken(s) == <<"recv_from", s, "fatal">> \in faults

\* Receive loop, recv_from returned Ok((len, origin)): build the Datagram
\* with Bytes::copy_from_slice(&data[..len]).
SocketRecv(s) ==
    /\ process = "running"
    /\ recvLoop[s].pc = "recv"
    /\ ~Broken(s)
    /\ MayReceive(s)
    /\ \E origin \in Peers(s) :
         LET datagram == Datagram(Payload(Len(rx[s]) + 1, ReadLen(wire_len)),
                                  origin, None, s) IN
         /\ rx' = [rx EXCEPT ![s] = Append(@, datagram)]
         /\ recvLoop' = [recvLoop EXCEPT ![s] = [pc |-> "publish", msg |-> datagram]]
    /\ UNCHANGED <<process, drop_percent, wire_len, applied, routerChan, router, routes,
                   outChan, sendLoop, proxyChan, recvTask, tx, seen, faults>>

\* Receive loop, recv_from returned Err: the if let Ok(..) does not match,
\* whatever the error, and the loop goes round to recv_from again.
SocketRecvErr(s) ==
    /\ process = "running"
    /\ recvLoop[s].pc = "recv"
    /\ ~Broken(s)
    /\ Cardinality(faults) < MaxFaults
    /\ \E kind \in ErrorKinds : faults' = faults \cup {<<"recv_from", s, kind>>}
    /\ UNCHANGED <<process, drop_percent, wire_len, applied, routerChan, router,
                   routes, outChan, sendLoop, recvLoop, proxyChan, recvTask, rx, tx,
                   seen>>

\* Receive loop, sender.send(datagram).await.expect(..): waits while the
\* channel is full; Err (the Receiver is gone) panics the task.
SocketPublish(s) ==
    /\ process = "running"
    /\ recvLoop[s].pc = "publish"
    /\ IF InboundOpen(s)
       THEN /\ HasRoom(InboundOf(s))
            /\ IF s = ListenSock
               THEN /\ routerChan' = Enqueue(routerChan, recvLoop[s].msg)
                    /\ UNCHANGED proxyChan
               ELSE /\ proxyChan' = [proxyChan EXCEPT ![s] = Enqueue(@, recvLoop[s].msg)]
                    /\ UNCHANGED routerChan
            /\ recvLoop' = [recvLoop EXCEPT ![s] = [pc |-> "recv", msg |-> NoMsg]]
       ELSE /\ recvLoop' = [recvLoop EXCEPT ![s] = [pc |-> "dead", msg |-> NoMsg]]
            /\ UNCHANGED <<routerChan, proxyChan>>
    /\ UNCHANGED <<process, drop_percent, wire_len, applied, router, routes, outChan,
                   sendLoop, recvTask, rx, tx, seen, faults>>

\* Send loop: receiver.recv() gave Some(message) and send_to returned Ok; a
\* message without destination hits unreachable! and the task panics.
SocketSend(s) ==
    /\ process = "running"
    /\ sendLoop[s] = "run"
    /\ outChan[s] # <<>>
    /\ LET message == Head(outChan[s]) IN
       IF message.destination # None
       THEN /\ tx' = [tx EXCEPT ![s] = Append(@, message)]
            /\ outChan' = [outChan EXCEPT ![s] = Dequeue(@)]
            /\ UNCHANGED sendLoop
       ELSE /\ sendLoop' = [sendLoop EXCEPT ![s] = "dead"]
            /\ outChan' = [outChan EXCEPT ![s] = <<>>]
            /\ UNCHANGED tx
    /\ UNCHANGED <<process, drop_percent, wire_len, applied, routerChan, router, routes,
                   recvLoop, proxyChan, recvTask, rx, seen, faults>>

\* Send loop of a backend pump: receiver.recv() gave None, the if let
\* Some(..) does not match and the loop goes round.  None comes once every
\* Sender is gone and the channel is empty: the pump's only lasting Sender is
\* the producer in its Route, dropped with routes when the Router task
\* panics.  From then on every recv() returns None at once ("spin").  The
\* client pump's producer lives in main until main returns.
SocketSendClosed(s) ==
    /\ process = "running"
    /\ s \in Backends
    /\ router.pc = "dead"
    /\ sendLoop[s] = "run"
    /\ outChan[s] = <<>>
    /\ sendLoop' = [sendLoop EXCEPT ![s] = "spin"]
    /\ UNCHANGED <<process, drop_percent, wire_len, applied, routerChan, router,
                   routes, outChan, recvLoop, proxyChan, recvTask, rx, tx, seen,
                   faults>>

\* Send loop: send_to returned Err, whatever the error .expect panics; the
\* task's Receiver is dropped with whatever was still queued.
SocketSendFail(s, kind) ==
    /\ process = "running"
    /\ sendLoop[s] = "run"
    /\ outChan[s] # <<>>
    /\ Cardinality(faults) < MaxFaults
    /\ faults' = faults \cup {<<"send_to", s, kind>>}
    /\ sendLoop' = [sendLoop EXCEPT ![s] = "dead"]
    /\ outChan' = [outChan EXCEPT ![s] = <<>>]
    /\ UNCHANGED <<process, drop_percent, wire_len, applied, routerChan, router, routes,
                   recvLoop, proxyChan, recvTask, rx, tx, seen>>

\* ------------------------------------------------------- Router::new
\* client_receiver.recv() gave Some(message); routes.entry(message.origin).
RouterRecv ==
    /\ process = "running"
    /\ router.pc = "recv"
    /\ routerChan # <<>>
    /\ LET message == Head(routerChan) IN
       /\ router' = [pc |-> IF IsVacant(routes, message.origin) THEN "create" ELSE "forward",
                     msg |-> message]
       /\ seen' = seen \cup {message.origin}
    /\ routerChan' = Dequeue(routerChan)
    /\ UNCHANGED <<process, drop_percent, wire_len, applied, routes, outChan, sendLoop,
                   recvLoop, proxyChan, recvTask, rx, tx, faults>>

\* Vacant entry: bind and connect succeeded; ChanneledSocket::new spawns the
\* pump's two loops, the return task is spawned, the Route is inserted.
RouterCreate ==
    /\ process = "running"
    /\ router.pc = "create"
    /\ LET n == Cardinality(Socks)
           message == router.msg IN
       /\ outChan' = Insert(outChan, n, <<>>)
       /\ sendLoop' = Insert(sendLoop, n, "run")
       /\ recvLoop' = Insert(recvLoop, n, [pc |-> "recv", msg |-> NoMsg])
       /\ proxyChan' = Insert(proxyChan, n, <<>>)
       /\ recvTask' = Insert(recvTask, n, [pc |-> "recv", msg |-> NoMsg,
                                           destination |-> ReplyDestination(message)])
       /\ rx' = Insert(rx, n, <<>>)
       /\ tx' = Insert(tx, n, <<>>)
       /\ routes' = routes_insert(routes, message.origin, n)
    /\ router' = [router EXCEPT !.pc = "forward"]
    /\ UNCHANGED <<process, drop_percent, wire_len, applied, routerChan, seen, faults>>

\* Vacant entry: bind or connect returned Err, .expect panics the Router
\* task; client_receiver is dropped with it.  routes keeps the value it had
\* at the panic: nothing reads the table after its owner has died.
RouterCreateFail ==
    /\ process = "running"
    /\ router.pc = "create"
    /\ Cardinality(faults) < MaxFaults
    /\ \E call \in {"bind", "connect"} :
         faults' = faults \cup {<<call, router.msg.origin, "fatal">>}
    /\ router' = [pc |-> "dead", msg |-> NoMsg]
    /\ routerChan' = <<>>
    /\ UNCHANGED <<process, drop_percent, wire_len, applied, routes, outChan, sendLoop,
                   recvLoop, proxyChan, recvTask, rx, tx, seen>>

\* "forward to server": routes.get, set_destination(server_addr), send on the
\* route's producer and .expect: waits while that channel is full; Err (the
\* route's send loop has died and dropped its Receiver) panics the Router
\* task, and client_receiver is dropped with it.
RouterForward ==
    /\ process = "running"
    /\ router.pc = "forward"
    /\ LET s == RouteLookup(routes, router.msg.origin) IN
       IF s = NoSock
       THEN /\ router' = [pc |-> "recv", msg |-> NoMsg]
            /\ UNCHANGED <<outChan, routerChan>>
       ELSE IF sendLoop[s] = "run"
       THEN /\ HasRoom(outChan[s])
            /\ outChan' = [outChan EXCEPT
                              ![s] = Enqueue(@, set_destination(router.msg, ServerAddr))]
            /\ router' = [pc |-> "recv", msg |-> NoMsg]
            /\ UNCHANGED routerChan
       ELSE /\ router' = [pc |-> "dead", msg |-> NoMsg]
            /\ routerChan' = <<>>
            /\ UNCHANGED outChan
    /\ UNCHANGED <<process, drop_percent, wire_len, applied, routes, sendLoop,
                   recvLoop, proxyChan, recvTask, rx, tx, seen, faults>>

\* Return task of a session: proxy_receiver.recv() gave Some(received).
TaskRecv(s) ==
    /\ process = "running"
    /\ recvTask[s].pc = "recv"
    /\ proxyChan[s] # <<>>
    /\ recvTask' = [recvTask EXCEPT
                       ![s].pc = "send",
                       ![s].msg = set_destination(Head(proxyChan[s]), recvTask[s].destination)]
    /\ proxyChan' = [proxyChan EXCEPT ![s] = Dequeue(@)]
    /\ UNCHANGED <<process, drop_percent, wire_len, applied, routerChan, router, routes,
                   outChan, sendLoop, recvLoop, rx, tx, seen, faults>>

\* Return task: client_sender_clone.send(received).await.expect(..): waits
\* while the client pump's channel is full; Err (the client pump's send loop
\* has died) panics the task, and proxy_receiver is dropped with it.
TaskSend(s) ==
    /\ process = "running"
    /\ recvTask[s].pc = "send"
    /\ IF sendLoop[ListenSock] = "run"
       THEN /\ HasRoom(outChan[ListenSock])
            /\ outChan' = [outChan EXCEPT ![ListenSock] = Enqueue(@, recvTask[s].msg)]
            /\ recvTask' = [recvTask EXCEPT ![s].pc = "recv", ![s].msg = NoMsg]
            /\ UNCHANGED proxyChan
       ELSE /\ recvTask' = [recvTask EXCEPT ![s].pc = "dead", ![s].msg = NoMsg]
            /\ proxyChan' = [proxyChan EXCEPT ![s] = <<>>]
            /\ UNCHANGED outChan
    /\ UNCHANGED <<process, drop_percent, wire_len, applied, routerChan, router, routes,
                   sendLoop, recvLoop, rx, tx, seen, faults>>

\* ---------------------------------------------------------------- main
\* tokio::join!(router) returns once the router task has ended (also by a
\* panic); main returns Ok(()) and the runtime is shut down.
MainJoin ==
    /\ process = "running"
    /\ router.pc = "dead"
    /\ process' = "exited"
    /\ UNCHANGED <<drop_percent, wire_len, applied, routerChan, router, routes, outChan,
                   sendLoop, recvLoop, proxyChan, recvTask, rx, tx, seen, faults>>

\* ------------------------------------------------------- specifications
Next ==
    \/ \E s \in Socks : SocketRecv(s)
    \/ \E s \in Socks : SocketPublish(s)
    \/ \E s \in Socks : SocketSend(s)
    \/ \E s \in Socks : SocketSendFail(s, "fatal")
    \/ \E s \in Socks : SocketSendClosed(s)
    \/ RouterRecv
    \/ RouterCreate
    \/ RouterCreateFail
    \/ RouterForward
    \/ \E s \in Backends : TaskRecv(s)
    \/ \E s \in Backends : TaskSend(s)
    \/ MainJoin

\* The relay with the I/O failures that end a task: bind, connect and
\* send_to returning a fatal error.
Spec == Init /\ [][Next]_vars

\* The relay with every I/O failure: also read errors of both kinds and
\* transient write errors.
ErrorNext ==
    \/ Next
    \/ \E s \in Socks : SocketRecvErr(s)
    \/ \E s \in Socks : SocketSendFail(s, "transient")

ErrorSpec == Init /\ [][ErrorNext]_vars

\* main.rs with no I/O failure: no bind, connect or send_to returns Err, so
\* no task panics and main never returns.
LiveNext ==
    \/ \E s \in Socks : SocketRecv(s)
    \/ \E s \in Socks : SocketPublish(s)
    \/ \E s \in Socks : SocketSend(s)
    \/ RouterRecv
    \/ RouterCreate
    \/ RouterForward
    \/ \E s \in Backends : TaskRecv(s)
    \/ \E s \in Backends : TaskSend(s)

\* Every socket id a run can create.
SockIds == 0..Cardinality(Clients)

\* The tokio scheduler polls every task that is ready; what the network
\* delivers (SocketRecv) is up to the environment.
Fairness ==
    /\ \A s \in SockIds : WF_vars(s \in Socks /\ SocketPublish(s))
    /\ \A s \in SockIds : WF_vars(s \in Socks /\ SocketSend(s))
    /\ WF_vars(RouterRecv)
    /\ WF_vars(RouterCreate)
    /\ WF_vars(RouterForward)
    /\ \A s \in SockIds : WF_vars(s \in Backends /\ TaskRecv(s))
    /\ \A s \in SockIds : WF_vars(s \in Backends /\ TaskSend(s))

LiveSpec == Init /\ [][LiveNext]_vars /\ Fairness

\* The relay without I/O failure, for each length of datagram on the wire.
PayloadInit == \E len \in WireLens : InitRelay(NoFilter, len)

PayloadSpec == PayloadInit /\ [][LiveNext]_vars

\* The relay of spec section 8's second scenario: drop_percent = 1.0.
InitDrop == InitRelay(Scale, BUFFER_SIZE)

DropSpec == InitDrop /\ [][Next]_vars

\* ------------------------------------------------- filters/drop_chance.rs
FilterInputs ==
    {Datagram(Payload(p, 1), o, d, ListenSock) : p \in 1..2, o \in Clients, d \in {None, ServerAddr}}

\* One call of DropChance::apply: rng.gen() draws the roll in [0, 1).
ApplyFilter ==
    /\ drop_percent # NoFilter
    /\ \E input \in FilterInputs, roll \in 0..(Scale - 1) :
         applied' = [called |-> TRUE, input |-> input, roll |-> roll,
                     output |-> DropChanceApply(drop_percent, roll, input)]
    /\ UNCHANGED <<process, drop_percent, wire_len, routerChan, router, routes, outChan,
                   sendLoop, recvLoop, proxyChan, recvTask, rx, tx, seen, faults>>

FilterInit ==
    \E p \in 0..Scale : InitRelay(p, BUFFER_SIZE)

FilterNext == ApplyFilter

FilterSpec == FilterInit /\ [][FilterNext]_vars

\* ================================================================ claims
Elems(q) == {q[i] : i \in 1..Len(q)}

IsPrefix(a, b) == Len(a) <= Len(b) /\ \A i \in 1..Len(a) : a[i] = b[i]

Stamp(q, destination) == [i \in 1..Len(q) |-> set_destination(q[i], destination)]

\* What the listening socket has read from client c, in order.
FromClient(c) == SelectSeq(rx[ListenSock], LAMBDA d : d.origin = c)

\* What the listening socket has written that was read on backend socket s.
RepliesVia(s) == SelectSeq(tx[ListenSock], LAMBDA d : d.via = s)

\* Every datagram that was ever put on backend pump s's outbound channel and
\* is still known: queued there, or written to the server by its send loop.
Outbound(s) == Elems(outChan[s]) \cup Elems(tx[s])

\* Every reply on its way out: held by a return task after set_destination,
\* queued on the client pump's outbound channel, or written to a client.
Returned ==
    Elems(outChan[ListenSock]) \cup Elems(tx[ListenSock])
        \cup {recvTask[s].msg : s \in {b \in Backends : recvTask[b].pc = "send"}}

\* C1. Session isolation: a datagram whose origin is client A is only ever
\* on the outbound channel of (or written by) the backend pump that the
\* session table stores under key A, never another client's pump.
C1_SessionIsolation ==
    \A s \in Backends : \A d \in Outbound(s) :
        d.origin \in DOMAIN routes /\ routes[d.origin] = s

C1_Witness ==
    \E a, b \in DOMAIN routes :
        /\ a # b
        /\ tx[routes[a]] # <<>>
        /\ tx[routes[b]] # <<>>
        /\ outChan[routes[a]] # <<>>

\* C2. Reply routing: a datagram read on a backend pump's socket goes to the
\* client pump's outbound channel with destination equal to the key of the
\* session that owns that backend pump, whatever sessions exist.
C2_ReplyRouting ==
    \A d \in Returned :
        /\ d.via \in Backends
        /\ d.destination \in DOMAIN routes
        /\ routes[d.destination] = d.via

C2_Witness ==
    /\ Cardinality(DOMAIN routes) = 2
    /\ \E d \in Elems(tx[ListenSock]) : d.via = 2

\* C3. One backend socket per client: whenever the Router has finished the
\* session step of a datagram, the number of backend sockets equals the number
\* of session-table entries and the number of distinct client addresses the
\* Router has seen; no socket is ever shared by two keys.
C3_OneSocketPerClient ==
    /\ Cardinality(Backends) = Cardinality(DOMAIN routes)
    /\ DOMAIN routes \subseteq seen
    /\ \A a, b \in DOMAIN routes : routes[a] = routes[b] => a = b
    /\ router.pc \in {"recv", "forward"} => Cardinality(Backends) = Cardinality(seen)

\* Two clients seen, one of them with a second datagram already forwarded.
C3_Witness ==
    /\ router.pc = "recv"
    /\ Cardinality(seen) = 2
    /\ \E c \in DOMAIN routes : Len(tx[routes[c]]) >= 2

\* C4. Per-session FIFO: what a client's backend socket has written to the
\* server is, in order, an initial part of what the listening socket read
\* from that client.
C4_PerSessionFifo ==
    \A c \in DOMAIN routes :
        IsPrefix(tx[routes[c]], Stamp(FromClient(c), ServerAddr))

\* d1, d2, d3 of one client written in order with another client's datagram
\* read in between.
C4_Witness ==
    \E c \in DOMAIN routes :
        /\ Len(tx[routes[c]]) = 3
        /\ \E i \in 1..Len(rx[ListenSock]) :
             /\ rx[ListenSock][i].origin # c
             /\ i < Len(rx[ListenSock])

\* Everything read so far has been written where it belongs: each client's
\* datagrams by its backend socket, addressed to the server, and each backend
\* socket's replies by the listening socket, addressed to the session's key.
AllDelivered ==
    /\ \A d \in Elems(rx[ListenSock]) : d.origin \in DOMAIN routes
    /\ \A c \in DOMAIN routes :
         /\ tx[routes[c]] = Stamp(FromClient(c), ServerAddr)
         /\ RepliesVia(routes[c]) = Stamp(rx[routes[c]], c)

\* C5. End-to-end delivery without a filter, without I/O failure and under
\* fair scheduling: again and again everything read so far has been written,
\* client datagrams to the server by the client's backend socket and replies
\* to the originating client by the listening socket.
C5_EndToEndDelivery == []<>AllDelivered

C5_Witness ==
    /\ AllDelivered
    /\ Len(rx[ListenSock]) = MaxDatagrams
    /\ Cardinality(DOMAIN routes) = 2
    /\ tx[ListenSock] # <<>>

\* C6. Filtering on the client-to-server path: with drop probability 1.0
\* every datagram is dropped by the filter, so none is ever enqueued on a
\* backend pump or written to the server.
C6_FilterDropsAll ==
    drop_percent = Scale => \A s \in Backends : Outbound(s) = {}

DropChanceResult ==
    applied.called =>
        /\ applied.output = NoMsg <=> applied.roll < drop_percent
        /\ applied.output # NoMsg => applied.output = applied.input
        /\ drop_percent = 0 => applied.output # NoMsg
        /\ drop_percent = Scale => applied.output = NoMsg

\* C7. Drop-chance filter: apply returns nothing exactly when the roll is
\* below the configured probability and otherwise the input unchanged, so
\* p = 0 never drops and p = 1 always drops; a call leaves the configured
\* probability as it was.
C7_DropChance == []DropChanceResult /\ [][drop_percent' = drop_percent]_vars

\* A call at the boundary: p = 0 with roll 0 passes the datagram.
C7_Witness ==
    /\ applied.called
    /\ drop_percent = 0
    /\ applied.roll = 0
    /\ applied.output = applied.input

\* C8. Failure isolation: when the only failure so far is a fatal send error
\* on one session's backend socket, the Router is still running and the
\* process is up, so the other clients are still served.
C8_FailureIsolation ==
    \A s \in Backends :
        faults = {<<"send_to", s, "fatal">>} => router.pc # "dead" /\ process = "running"

\* C9. Session creation failure: after bind or connect has failed for a new
\* client, no entry was inserted for it and the Router keeps running.
C9_CreationFailureSurvived ==
    \A c \in Clients :
        (<<"bind", c, "fatal">> \in faults \/ <<"connect", c, "fatal">> \in faults) =>
            /\ c \notin DOMAIN routes
            /\ router.pc # "dead"
            /\ process = "running"

RouterStep == RouterRecv \/ RouterCreate \/ RouterForward

\* Client a's backend channel is full, its send loop alive, and the next
\* datagram in the Router's inbound channel is from another client b whose
\* own session does not stand in the way.
WaitingBehindFull(a, b) ==
    /\ process = "running"
    /\ router.pc # "dead"
    /\ a \in DOMAIN routes
    /\ sendLoop[routes[a]] = "run"
    /\ ~HasRoom(outChan[routes[a]])
    /\ routerChan # <<>>
    /\ Head(routerChan).origin = b
    /\ b \in DOMAIN routes => sendLoop[routes[b]] = "run" /\ HasRoom(outChan[routes[b]])

\* C10. No head-of-line blocking: whenever client a's backend channel is full
\* and a datagram of another client b waits in the Router's inbound channel,
\* the Router can take a step without a's channel draining first.
C10_NoHeadOfLineBlocking ==
    \A a, b \in Clients :
        (a # b /\ WaitingBehindFull(a, b)) => ENABLED RouterStep

\* Every datagram a receive loop has built and not yet handed to a consumer
\* that stamps it: held by the loop, or queued on its inbound channel.
Published ==
    Elems(routerChan)
        \cup UNION {Elems(proxyChan[s]) : s \in Socks}
        \cup {recvLoop[s].msg : s \in {x \in Socks : recvLoop[x].pc = "publish"}}

\* C11. Destination invariant: every datagram on a pump's outbound channel
\* (and every one its send loop wrote) has its destination set, so the send
\* loop never dies without an I/O failure on its socket; every datagram
\* published by a receive loop has origin set and destination unset; a
\* client-to-server datagram's destination is the configured server address.
C11_DestinationInvariant ==
    /\ \A s \in Socks : \A d \in Outbound(s) : d.destination # None
    /\ \A s \in Socks :
         sendLoop[s] = "dead" => \E f \in faults : f[1] = "send_to" /\ f[2] = s
    /\ \A d \in Published : d.origin # None /\ d.destination = None
    /\ \A s \in Backends : \A d \in Outbound(s) : d.destination = ServerAddr

\* Both directions in flight: a stamped datagram queued for the server, a
\* stamped reply queued for a client, and a fresh datagram not yet routed.
C11_Witness ==
    /\ \E s \in Backends : outChan[s] # <<>>
    /\ outChan[ListenSock] # <<>>
    /\ routerChan # <<>>

\* Every datagram inside the relay or written by it.
Handled ==
    Published \cup Returned \cup UNION {Outbound(s) : s \in Socks}
        \cup (IF router.pc \in {"create", "forward"} THEN {router.msg} ELSE {})

\* C12. Payload preservation: every datagram inside the relay or written by
\* a send loop is, but for its destination, the datagram the receive loop
\* built; and when the datagram on the wire had at most BUFFER_SIZE bytes,
\* the payload written has all of them.
C12_PayloadPreserved ==
    /\ \A d \in Handled :
         /\ d.via \in Socks
         /\ d.payload.id \in 1..Len(rx[d.via])
         /\ set_destination(d, None) = rx[d.via][d.payload.id]
    /\ \A s \in Socks : \A d \in Elems(tx[s]) :
         wire_len <= BUFFER_SIZE => d.payload.len = wire_len

\* Datagrams of exactly BUFFER_SIZE bytes written in both directions.
C12_Witness ==
    /\ wire_len = BUFFER_SIZE
    /\ tx[ListenSock] # <<>>
    /\ \E s \in Backends : tx[s] # <<>>

RecvBlocked(s) ==
    recvLoop[s].pc = "publish" /\ InboundOpen(s) /\ ~HasRoom(InboundOf(s))

RouterBlocked ==
    /\ router.pc = "forward"
    /\ LET s == RouteLookup(routes, router.msg.origin) IN
       s # NoSock /\ sendLoop[s] = "run" /\ ~HasRoom(outChan[s])

TaskBlocked(s) ==
    recvTask[s].pc = "send" /\ sendLoop[ListenSock] = "run" /\ ~HasRoom(outChan[ListenSock])

WithinCapacity ==
    /\ Len(routerChan) <= ChannelCapacity
    /\ \A s \in Socks : Len(outChan[s]) <= ChannelCapacity
    /\ \A s \in Socks : Len(proxyChan[s]) <= ChannelCapacity

C15_RecvLoopErrors ==
    \A s \in Socks :
        /\ faults = {<<"recv_from", s, "transient">>} => recvLoop[s].pc # "dead"
        /\ <<"recv_from", s, "fatal">> \in faults => recvLoop[s].pc = "dead"

\* C16. Send-loop error handling: after a transient write error the send loop
\* is still running; a fatal write error terminates that send loop and
\* nothing else.
C16_SendLoopErrors ==
    \A s \in Socks :
        /\ faults = {<<"send_to", s, "transient">>} => sendLoop[s] = "run"
        /\ faults = {<<"send_to", s, "fatal">>} =>
             /\ sendLoop[s] = "dead"
             /\ router.pc # "dead"
             /\ \A x \in Socks \ {s} : sendLoop[x] # "dead"

\* C17. Dead backend pump recovery: when a backend pump's send loop has died
\* (and no session creation has failed), the Router is still running.
C17_DeadPumpRecovery ==
    (/\ \E s \in Backends : sendLoop[s] = "dead"
     /\ \A f \in faults : f[1] = "send_to") => router.pc # "dead"

\* C18. Closed channel on the consumer side: no consumer loop goes on
\* looping once it has seen its input channel closed.
C18_ClosedChannelStops ==
    \A s \in Socks : sendLoop[s] # "spin"

\* No datagram occurs twice in q.
NoRepeat(q) == \A i, j \in 1..Len(q) : q[i] = q[j] => i = j

\* C19. No duplication: no socket writes the same datagram twice; a client's
\* backend socket has written at most as many datagrams as the listening
\* socket read from that client, and the listening socket has written at most
\* as many replies of a session as that session's backend socket read.
C19_NoDuplication ==
    /\ \A s \in Socks : NoRepeat(tx[s])
    /\ \A c \in DOMAIN routes :
         /\ Len(tx[routes[c]]) <= Len(FromClient(c))
         /\ Len(RepliesVia(routes[c])) <= Len(rx[routes[c]])
    /\ \A d \in Elems(tx[ListenSock]) : d.via \in Backends

\* A client whose datagrams, two or more, have all been written to the
\* server, and whose one reply has been written back.
C19_Witness ==
    \E c \in DOMAIN routes :
        /\ Len(FromClient(c)) >= 2
        /\ Len(tx[routes[c]]) = Len(FromClient(c))
        /\ Len(rx[routes[c]]) = 1
        /\ Len(RepliesVia(routes[c])) = 1
\* Some producer waits for a slot of a full channel.
Blocked ==
    \/ RouterBlocked
    \/ \E s \in Socks : RecvBlocked(s)
    \/ \E s \in Backends : TaskBlocked(s)

\* A step of some task of the process, as opposed to a datagram arriving
\* from the network.
TaskStep ==
    \/ \E s \in Socks : SocketPublish(s)
    \/ \E s \in Socks : SocketSend(s)
    \/ RouterRecv
    \/ RouterCreate
    \/ RouterForward
    \/ \E s \in Backends : TaskRecv(s)
    \/ \E s \in Backends : TaskSend(s)

\* No channel is full and no producer waits for a slot.
Quiet ==
    /\ ~Blocked
    /\ HasRoom(routerChan)
    /\ \A s \in Socks : HasRoom(outChan[s]) /\ HasRoom(proxyChan[s])

====
